---- MODULE Spec2Model ----
(***************************************************************************)
(* Model of index.js, the AI code-mod bot: main() clones a repository,     *)
(* samples a context with sampleRepoContext(), asks the model for a patch  *)
(* with askForPatch(), applies it with applyOrRetry() (one retry), then    *)
(* commits, pushes and opens a pull request.                               *)
(*                                                                         *)
(* Strings the code only passes around are TLA+ strings; the text of a     *)
(* model response is a sequence of tokens (whitespace characters, the      *)
(* literal __NO_CHANGES__, other text) so that String.prototype.trim is a  *)
(* real operation on it.  The contents of a file are represented by the    *)
(* file they were read from and their byte length.                         *)
(***************************************************************************)
EXTENDS Integers, Sequences, FiniteSets, TLC

VARIABLES
  \* ---- the working tree as globby / fs see it
  discovered,   \* globby's result: sequence of relative paths, discovery order
  size,         \* path -> size in bytes reported by fs.stat
  status,       \* path -> "ok" | "gone" (stat and read fail) | "unreadable" (read fails)
  \* ---- one activation of sampleRepoContext
  spc,          \* pending: "idle" | "called" (globby) | "stat" | "reading" | "returned" | "threw"
  maxFiles, maxBytes,
  candidates,   \* the array after candidates.sort(...)
  idx,          \* number of candidates the for-of loop has consumed
  picked, budget,
  inflight,     \* indexes of picked whose fs.readFile is pending
  parts,        \* index of picked -> block, for the reads that completed
  result,       \* the string sampleRepoContext returned, as its sequence of blocks
  \* ---- the test harness that calls sampleRepoContext twice on one snapshot
  run, firstResult,
  \* ---- main()
  pc, task, contextBlob, diff, exitStatus, outcome,
  log,          \* operations invoked so far, in order, with their result
  requests,     \* messages of the model requests sent so far
  responses,    \* texts the model returned so far, as received
  patches       \* inputs given to `git apply -` so far

treeVars    == <<discovered, size, status>>
samplerVars == <<spc, maxFiles, maxBytes, candidates, idx, picked, budget,
                 inflight, parts, result>>
harnessVars == <<run, firstResult>>
mainVars    == <<pc, task, contextBlob, diff, exitStatus, outcome, log,
                 requests, responses, patches>>
vars        == <<treeVars, samplerVars, harnessVars, mainVars>>

(***************************************************************************)
(* Bounds of the model                                                     *)
(***************************************************************************)
MaxCand == 2        \* candidates globby returns, sampler harness
MaxResp == 2        \* tokens in one model response

(***************************************************************************)
(* Program constants                                                       *)
(***************************************************************************)
HardCap         == 3000     \* size < 3_000
DefaultMaxFiles == 25
DefaultMaxBytes == 40000
HeaderBytes     == 6        \* "FILE: "
NewlineBytes    == 1        \* "\n"
DelimBytes      == 18       \* "\n\n<<<END FILE>>>\n\n"
SENTINEL        == <<"__NO_CHANGES__">>
CORRECTIVE      == "The previous patch failed to apply. Re-emit the ENTIRE diff (with headers) and ensure it applies."

Paths     == {"a.js", "b.py", "src/m.go", "package.json"}
Sizes     == {2, 3, HardCap - 1, HardCap}
FileCaps  == {0, 1, 2, DefaultMaxFiles}
ByteCaps  == {0, 5, DefaultMaxBytes}
MainPaths == {"a.js", "package.json"}     \* the tree main() clones
MainSizes == {2, HardCap}
\* process.argv.slice(2): no argument, one empty argument, or a task given
\* in two arguments
Argvs     == {<<>>, <<"">>, <<"add", "a LICENSE file">>}

\* args.join(" ")
RECURSIVE JoinArgs(_)
JoinArgs(args) ==
  IF args = <<>> THEN ""
  ELSE IF Len(args) = 1 THEN args[1]
  ELSE args[1] \o " " \o JoinArgs(SubSeq(args, 2, Len(args)))

Tasks     == {JoinArgs(a) : a \in Argvs}
Whitespace == {" "}
Tokens    == Whitespace \cup {"__NO_CHANGES__", "diff"}

(***************************************************************************)
(* Pure helpers                                                            *)
(***************************************************************************)
Range(s) == {s[k] : k \in 1..Len(s)}

\* sequences without repetition over S, of length at most n
RECURSIVE DistinctSeqs(_, _)
DistinctSeqs(S, n) ==
  IF n = 0 THEN {<<>>}
  ELSE LET shorter == DistinctSeqs(S, n - 1)
       IN  shorter \cup
           UNION {{Append(s, x) : x \in S \ Range(s)} : s \in shorter}

\* sequences over S of length 1..n
RECURSIVE SeqsUpTo(_, _)
SeqsUpTo(S, n) ==
  IF n = 0 THEN {}
  ELSE UNION {[1..k -> S] : k \in 1..n}

(***************************************************************************)
(* candidates.sort((a, b) => a.length - b.length)                          *)
(* Array.prototype.sort is stable (Node >= 18): elements that compare      *)
(* equal keep their order.                                                 *)
(***************************************************************************)
RECURSIVE InsertByLengthMutant(_, _)
InsertByLengthMutant(f, sorted) ==
  IF sorted = <<>> THEN <<f>>
  ELSE IF Len(f) - Len(Head(sorted)) <= 0
       THEN <<f>> \o sorted
       ELSE <<Head(sorted)>> \o InsertByLengthMutant(f, Tail(sorted))

RECURSIVE InsertByLength(_, _)
InsertByLength(f, sorted) ==
  IF sorted = <<>> THEN <<f>>
  ELSE IF Len(f) - Len(Head(sorted)) < 0
       THEN <<f>> \o sorted
       ELSE <<Head(sorted)>> \o InsertByLength(f, Tail(sorted))

RECURSIVE SortByLength(_)
SortByLength(s) ==
  IF s = <<>> THEN <<>>
  ELSE InsertByLength(s[Len(s)], SortByLength(SubSeq(s, 1, Len(s) - 1)))

(***************************************************************************)
(* sampleRepoContext                                                       *)
(***************************************************************************)
\* size < 3_000 && budget - size > 0
AdmitsMutant(sz, bud) == sz <= HardCap /\ bud - sz > 0
AdmitsAtZero(sz, bud) == sz < HardCap /\ bud - sz >= 0
Admits(sz, bud) == sz < HardCap /\ bud - sz > 0

\* budget -= size
ChargeMutant(bud, sz) == bud + sz
Charge(bud, sz) == bud - sz

\* if (picked.length >= maxFiles) break;
LoopBreaksMutant(pk, cap) == Len(pk) > cap
LoopBreaks(pk, cap) == Len(pk) >= cap

\* `FILE: ${f}\n${code}` : the block of file f, with the bytes it takes
Block(f) == [path |-> f, code |-> [of |-> f, bytes |-> size[f]]]
BlockBytes(b) == HeaderBytes + Len(b.path) + NewlineBytes + b.code.bytes

\* Promise.all keeps the results at the index of their promise
StorePartMutant(ps, k, b) == Append(ps, b)
StorePart(ps, k, b) == ps @@ (k :> b)

\* parts.join("\n\n<<<END FILE>>>\n\n") : byte length of the joined string
RECURSIVE SumBlocks(_)
SumBlocks(bs) ==
  IF bs = <<>> THEN 0 ELSE BlockBytes(Head(bs)) + SumBlocks(Tail(bs))

BundleBytes(bs) ==
  IF bs = <<>> THEN 0 ELSE SumBlocks(bs) + (Len(bs) - 1) * DelimBytes

RECURSIVE SumSizes(_)
SumSizes(pk) ==
  IF pk = <<>> THEN 0 ELSE size[Head(pk)] + SumSizes(Tail(pk))

\* top of the for-of loop once i candidates are consumed and pk is picked:
\* either the next fs.stat is issued, or the loop is left and
\* picked.map(...) issues one fs.readFile per picked file, all pending at once
LoopHeadMutant(cands, i, pk) ==
  IF i < Len(cands) /\ ~LoopBreaks(pk, maxFiles)
  THEN /\ spc' = "stat"
       /\ inflight' = 1..Len(pk)
  ELSE /\ spc' = "reading"
       /\ inflight' = 1..Len(pk)
LoopHead(cands, i, pk) ==
  IF i < Len(cands) /\ ~LoopBreaks(pk, maxFiles)
  THEN /\ spc' = "stat"
       /\ inflight' = {}
  ELSE /\ spc' = "reading"
       /\ inflight' = 1..Len(pk)

\* sampleRepoContext(repoDir, mf, mb) is called: globby is pending
CallSampler(mf, mb) ==
  /\ spc' = "called"
  /\ maxFiles' = mf
  /\ maxBytes' = mb
  /\ candidates' = <<>>
  /\ idx' = 0
  /\ picked' = <<>>
  /\ budget' = 0
  /\ inflight' = {}
  /\ parts' = <<>>
  /\ result' = <<>>

\* globby resolves; the array is sorted, picked = [], budget = maxBytes
GlobDone ==
  /\ spc = "called"
  /\ candidates' = SortByLength(discovered)
  /\ picked' = <<>>
  /\ budget' = maxBytes
  /\ idx' = 0
  /\ LoopHead(candidates', 0, <<>>)
  /\ UNCHANGED <<maxFiles, maxBytes, parts, result>>
  /\ UNCHANGED <<treeVars, harnessVars, mainVars>>

\* await fs.stat(abs) rejects for a file that is no longer there; await
\* fs.readFile rejects for one that is gone or cannot be read.  Neither
\* call is inside a try block
StatFailsMutant(st) == FALSE
StatFails(st) == st = "gone"
ReadFails(st) == st # "ok"

\* fs.stat of the next candidate resolves or rejects
StatDone ==
  /\ spc = "stat"
  /\ LET f == candidates[idx + 1] IN
       IF StatFails(status[f])
       THEN /\ spc' = "threw"
            /\ UNCHANGED <<idx, picked, budget, inflight>>
       ELSE /\ idx' = idx + 1
            /\ IF Admits(size[f], budget)
               THEN /\ picked' = Append(picked, f)
                    /\ budget' = Charge(budget, size[f])
               ELSE UNCHANGED <<picked, budget>>
            /\ LoopHead(candidates, idx + 1, picked')
  /\ UNCHANGED <<maxFiles, maxBytes, candidates, parts, result>>
  /\ UNCHANGED <<treeVars, harnessVars, mainVars>>

\* one of the pending fs.readFile calls resolves or rejects, in any order
ReadDone ==
  /\ spc = "reading"
  /\ \E k \in inflight :
       /\ inflight' = inflight \ {k}
       /\ IF ReadFails(status[picked[k]])
          THEN /\ spc' = "threw"
               /\ UNCHANGED parts
          ELSE /\ parts' = StorePart(parts, k, Block(picked[k]))
               /\ spc' = "reading"
  /\ UNCHANGED <<maxFiles, maxBytes, candidates, idx, picked, budget, result>>
  /\ UNCHANGED <<treeVars, harnessVars, mainVars>>

\* Promise.all resolves once every promise it was given has resolved
AllResolvedMutant(pending) == FALSE
AllResolved(pending) == pending = {}

\* Promise.all resolved: return parts.join(...)
Join ==
  /\ spc = "reading"
  /\ AllResolved(inflight)
  /\ result' = [k \in 1..Len(picked) |-> parts[k]]
  /\ spc' = "returned"
  /\ UNCHANGED <<maxFiles, maxBytes, candidates, idx, picked, budget,
                 inflight, parts>>
  /\ UNCHANGED <<treeVars, harnessVars, mainVars>>

(***************************************************************************)
(* Harness: sampleRepoContext is called on a working tree with given       *)
(* limits, and once it has settled it is called again on the same tree.    *)
(***************************************************************************)
Settled == spc \in {"returned", "threw"}

Rerun ==
  /\ run = 1
  /\ Settled
  /\ firstResult' = [returned |-> spc = "returned", picked |-> picked,
                     blob |-> result]
  /\ run' = 2
  /\ CallSampler(maxFiles, maxBytes)
  /\ UNCHANGED <<treeVars, mainVars>>

\* working trees: what globby found, the size of each file found, and at
\* most one file that vanished or became unreadable after discovery
Statuses(d) ==
  {st \in [Range(d) -> {"ok", "gone", "unreadable"}] :
     Cardinality({p \in Range(d) : st[p] # "ok"}) <= 1}

Trees(ps, n, szs) ==
  UNION {[discovered : {d}, size : [Range(d) -> szs], status : Statuses(d)] :
           d \in DistinctSeqs(ps, n)}

MainIdle ==
  /\ pc = "harness"
  /\ task = ""
  /\ contextBlob = <<>>
  /\ diff = <<>>
  /\ exitStatus = 0
  /\ outcome = "running"
  /\ log = <<>>
  /\ requests = <<>>
  /\ responses = <<>>
  /\ patches = <<>>

SamplerInit ==
  /\ \E t \in Trees(Paths, MaxCand, Sizes) :
       /\ discovered = t.discovered
       /\ size = t.size
       /\ status = t.status
  /\ maxFiles \in FileCaps
  /\ maxBytes \in ByteCaps
  /\ spc = "called"
  /\ candidates = <<>>
  /\ idx = 0
  /\ picked = <<>>
  /\ budget = 0
  /\ inflight = {}
  /\ parts = <<>>
  /\ result = <<>>
  /\ run = 1
  /\ firstResult = [returned |-> FALSE, picked |-> <<>>, blob |-> <<>>]
  /\ MainIdle

SamplerNext == GlobDone \/ StatDone \/ ReadDone \/ Join \/ Rerun

SamplerSpec == SamplerInit /\ [][SamplerNext]_vars

(***************************************************************************)
(* main()                                                                  *)
(***************************************************************************)
\* String.prototype.trim on the text of a response
RECURSIVE TrimStart(_)
TrimStart(s) ==
  IF s # <<>> /\ Head(s) \in Whitespace THEN TrimStart(Tail(s)) ELSE s

RECURSIVE TrimEnd(_)
TrimEnd(s) ==
  IF s # <<>> /\ s[Len(s)] \in Whitespace
  THEN TrimEnd(SubSeq(s, 1, Len(s) - 1))
  ELSE s

Trim(s) == TrimEnd(TrimStart(s))

\* diff === "__NO_CHANGES__"
IsNoChangeMutant(d) == \E k \in 1..Len(d) : d[k] = SENTINEL[1]
IsNoChangeTypo(d) == d = <<"__NO_CHANGE__">>
IsNoChange(d) == d = SENTINEL

\* the texts res.choices[0].message.content can be
Responses == SeqsUpTo(Tokens, MaxResp)

Invoke(l, op) == Append(l, [op |-> op, res |-> "pending"])
Complete(l, res) == [l EXCEPT ![Len(l)].res = res]
Ops(l, op) == {k \in 1..Len(l) : l[k].op = op}
OpsOk(l, op) == {k \in 1..Len(l) : l[k].op = op /\ l[k].res = "ok"}

\* the three message turns of askForPatch(extraInstruction)
Messages(blob, extra) == [context |-> blob, task |-> task, extra |-> extra]

\* process.exit(code), or the event loop running dry after main() returned
Exit(code, how) ==
  /\ pc' = "exited"
  /\ exitStatus' = code
  /\ outcome' = how

\* main().catch(err => { console.error(err); process.exit(1); })
FatalMutant == Exit(0, "failed")
Fatal == Exit(1, "failed")

\* the pending operation rejected: nothing catches it before main().catch
RejectedMutant ==
  /\ log' = Invoke(Complete(log, "fail"), log[Len(log)].op)
  /\ UNCHANGED <<pc, exitStatus, outcome>>
Rejected ==
  /\ log' = Complete(log, "fail")
  /\ Fatal

\* if (!task): the empty string is the only falsy string
MissingTaskMutant(t) == FALSE
MissingTask(t) == t = ""

\* lines 65-78: the task is read; without one the process exits at once,
\* otherwise the clients are built and fs.mkdtemp is issued
Main ==
  /\ pc = "start"
  /\ IF MissingTask(task)
     THEN /\ Exit(1, "usage")
          /\ UNCHANGED log
     ELSE /\ pc' = "mkdtemp"
          /\ log' = Invoke(log, "mkdtemp")
          /\ UNCHANGED <<exitStatus, outcome>>
  /\ UNCHANGED <<task, contextBlob, diff, requests, responses, patches>>
  /\ UNCHANGED <<treeVars, samplerVars, harnessVars>>

\* fs.mkdtemp settles; git.clone is issued
MkdtempDone ==
  /\ pc = "mkdtemp"
  /\ \E ok \in BOOLEAN :
       IF ok
       THEN /\ pc' = "clone"
            /\ log' = Invoke(Complete(log, "ok"), "clone")
            /\ UNCHANGED <<exitStatus, outcome>>
       ELSE Rejected
  /\ UNCHANGED <<task, contextBlob, diff, requests, responses, patches>>
  /\ UNCHANGED <<treeVars, samplerVars, harnessVars>>

\* git.clone settles; git.cwd(tmpDir).checkoutLocalBranch(branch) is issued
CloneDone ==
  /\ pc = "clone"
  /\ \E ok \in BOOLEAN :
       IF ok
       THEN /\ pc' = "checkout"
            /\ log' = Invoke(Complete(log, "ok"), "checkout")
            /\ UNCHANGED <<exitStatus, outcome>>
       ELSE Rejected
  /\ UNCHANGED <<task, contextBlob, diff, requests, responses, patches>>
  /\ UNCHANGED <<treeVars, samplerVars, harnessVars>>

\* checkoutLocalBranch settles; sampleRepoContext(tmpDir) is called with
\* its default limits
CheckoutDone ==
  /\ pc = "checkout"
  /\ \E ok \in BOOLEAN :
       IF ok
       THEN /\ pc' = "sample"
            /\ log' = Invoke(Complete(log, "ok"), "sample")
            /\ CallSampler(DefaultMaxFiles, DefaultMaxBytes)
            /\ UNCHANGED <<exitStatus, outcome>>
       ELSE /\ Rejected
            /\ UNCHANGED samplerVars
  /\ UNCHANGED <<task, contextBlob, diff, requests, responses, patches>>
  /\ UNCHANGED <<treeVars, harnessVars>>

\* sampleRepoContext returned: contextBlob is set and the first
\* askForPatch() sends its request
SampleReturned ==
  /\ pc = "sample"
  /\ spc = "returned"
  /\ contextBlob' = result
  /\ requests' = Append(requests, Messages(contextBlob', ""))
  /\ log' = Invoke(Complete(log, "ok"), "ask")
  /\ pc' = "ask"
  /\ UNCHANGED <<task, diff, exitStatus, outcome, responses, patches>>
  /\ UNCHANGED <<treeVars, samplerVars, harnessVars>>

\* sampleRepoContext threw: the error reaches main().catch
SampleThrew ==
  /\ pc = "sample"
  /\ spc = "threw"
  /\ Rejected
  /\ UNCHANGED <<task, contextBlob, diff, requests, responses, patches>>
  /\ UNCHANGED <<treeVars, samplerVars, harnessVars>>

\* run(): if (r.status !== 0) throw new Error(...)
RunThrowsMutant(st) == FALSE
RunThrows(st) == st # 0

\* applyOrRetry's catch: if (isRetry) throw new Error("patch failed twice")
GivesUpMutant(isRetry) == FALSE
GivesUp(isRetry) == isRetry

\* exit statuses of the `git apply -` subprocess
ApplyStatuses == {0, 1}

\* the attempt as the log keeps it
Attempt(st) == [op |-> "apply", res |-> IF st = 0 THEN "ok" ELSE "fail"]

\* applyOrRetry(patch, isRetry), entered with log l.  run() is spawnSync,
\* so the attempt belongs to the step that makes it: `git apply -` gets
\* patch on stdin and exits with st.  When run() returns, the caller goes
\* on to git.add(".").commit(...); when it throws, either the error is
\* rethrown as "patch failed twice" or the corrective request is sent
ApplyOrRetry(patch, isRetry, st, l) ==
  /\ patches' = Append(patches, patch)
  /\ IF ~RunThrows(st)
     THEN /\ log' = Invoke(Append(l, Attempt(st)), "commit")
          /\ pc' = "commit"
          /\ UNCHANGED <<requests, exitStatus, outcome>>
     ELSE IF GivesUp(isRetry)
     THEN /\ log' = Append(l, Attempt(st))
          /\ Fatal
          /\ UNCHANGED requests
     ELSE /\ log' = Invoke(Append(l, Attempt(st)), "ask")
          /\ requests' = Append(requests, Messages(contextBlob, CORRECTIVE))
          /\ pc' = "askRetry"
          /\ UNCHANGED <<exitStatus, outcome>>

\* the first request settles.  On a response, diff is its trimmed text; the
\* sentinel ends the run, anything else goes to applyOrRetry(diff)
FirstResponse ==
  /\ pc = "ask"
  /\ \E ok \in BOOLEAN, r \in Responses, st \in ApplyStatuses :
       IF ~ok
       THEN /\ Rejected
            /\ UNCHANGED <<diff, requests, responses, patches>>
       ELSE /\ responses' = Append(responses, r)
            /\ diff' = Trim(r)
            /\ IF IsNoChange(diff')
               THEN /\ log' = Complete(log, "ok")
                    /\ Exit(0, "noop")
                    /\ UNCHANGED <<requests, patches>>
               ELSE ApplyOrRetry(diff', FALSE, st, Complete(log, "ok"))
  /\ UNCHANGED <<task, contextBlob>>
  /\ UNCHANGED <<treeVars, samplerVars, harnessVars>>

\* return applyOrRetry(fresh, true): the recursive call gets the new
\* patch, not the parameter patch that just failed
RetryPatchMutant(patch, fresh) == patch
RetryPatch(patch, fresh) == fresh

\* the corrective request settles.  On a response, its trimmed text goes to
\* applyOrRetry(fresh, true), whose result becomes diff
RetryResponse ==
  /\ pc = "askRetry"
  /\ \E ok \in BOOLEAN, r \in Responses, st \in ApplyStatuses :
       IF ~ok
       THEN /\ Rejected
            /\ UNCHANGED <<diff, requests, responses, patches>>
       ELSE LET fresh == Trim(r) IN
            /\ responses' = Append(responses, r)
            /\ diff' = IF RunThrows(st) THEN diff ELSE RetryPatch(diff, fresh)
            /\ ApplyOrRetry(RetryPatch(diff, fresh), TRUE, st,
                            Complete(log, "ok"))
  /\ UNCHANGED <<task, contextBlob>>
  /\ UNCHANGED <<treeVars, samplerVars, harnessVars>>

\* git.add(".").commit(`AI: ${task}`) settles; git.push is issued
CommitDone ==
  /\ pc = "commit"
  /\ \E ok \in BOOLEAN :
       IF ok
       THEN /\ pc' = "push"
            /\ log' = Invoke(Complete(log, "ok"), "push")
            /\ UNCHANGED <<exitStatus, outcome>>
       ELSE Rejected
  /\ UNCHANGED <<task, contextBlob, diff, requests, responses, patches>>
  /\ UNCHANGED <<treeVars, samplerVars, harnessVars>>

\* git.push("origin", branch) settles; octokit.pulls.create is issued
PushDone ==
  /\ pc = "push"
  /\ \E ok \in BOOLEAN :
       IF ok
       THEN /\ pc' = "pr"
            /\ log' = Invoke(Complete(log, "ok"), "pr")
            /\ UNCHANGED <<exitStatus, outcome>>
       ELSE Rejected
  /\ UNCHANGED <<task, contextBlob, diff, requests, responses, patches>>
  /\ UNCHANGED <<treeVars, samplerVars, harnessVars>>

\* octokit.pulls.create settles; main() returns and the process ends
PrDone ==
  /\ pc = "pr"
  /\ \E ok \in BOOLEAN :
       IF ok
       THEN /\ log' = Complete(log, "ok")
            /\ Exit(0, "published")
       ELSE Rejected
  /\ UNCHANGED <<task, contextBlob, diff, requests, responses, patches>>
  /\ UNCHANGED <<treeVars, samplerVars, harnessVars>>

\* sampleRepoContext runs only while main() awaits it
Sampling == pc = "sample" /\ (GlobDone \/ StatDone \/ ReadDone \/ Join)

Init ==
  /\ \E t \in Trees(MainPaths, Cardinality(MainPaths), MainSizes) :
       /\ discovered = t.discovered
       /\ size = t.size
       /\ status = t.status
  /\ spc = "idle"
  /\ maxFiles = 0
  /\ maxBytes = 0
  /\ candidates = <<>>
  /\ idx = 0
  /\ picked = <<>>
  /\ budget = 0
  /\ inflight = {}
  /\ parts = <<>>
  /\ result = <<>>
  /\ run = 1
  /\ firstResult = [returned |-> FALSE, picked |-> <<>>, blob |-> <<>>]
  /\ pc = "start"
  /\ task \in Tasks
  /\ contextBlob = <<>>
  /\ diff = <<>>
  /\ exitStatus = 0
  /\ outcome = "running"
  /\ log = <<>>
  /\ requests = <<>>
  /\ responses = <<>>
  /\ patches = <<>>

Next ==
  \/ Main \/ MkdtempDone \/ CloneDone \/ CheckoutDone
  \/ Sampling \/ SampleReturned \/ SampleThrew
  \/ FirstResponse \/ RetryResponse
  \/ CommitDone \/ PushDone \/ PrDone

Spec == Init /\ [][Next]_vars

\* every awaited operation settles: it completes or fails, and the
\* continuation that awaits it then runs
LiveSpec == Init /\ [][Next]_vars /\ WF_vars(Next)

(***************************************************************************)
(* Properties                                                              *)
(***************************************************************************)
Last(l) == l[Len(l)]
Applies == SelectSeq(log, LAMBDA e : e.op = "apply")
Correctives == {k \in 1..Len(requests) : requests[k].extra = CORRECTIVE}
Did(op) == Ops(log, op) # {}
FirstOf(op) == CHOOSE k \in Ops(log, op) : \A j \in Ops(log, op) : k <= j
Terminated == pc = "exited"

\* C1: `git apply` is invoked at most twice in a run: the number of apply
\* attempts never exceeds 2, whatever the apply outcomes and the responses.
C1_AtMostTwoAttempts ==
  /\ Len(Applies) <= 2
  /\ Len(patches) <= 2
  /\ Len(patches) = Len(Applies)

C1_Witness ==
  /\ Terminated
  /\ Len(Applies) = 2
  /\ Applies[1].res = "fail"
  /\ Applies[2].res = "fail"

\* C2: when the first model response is the sentinel __NO_CHANGES__, the run
\* ends with exit status 0 and no apply attempt, no corrective re-request,
\* no commit, no push and no pull request.
C2_SentinelEndsRun ==
  (Len(responses) >= 1 /\ responses[1] = SENTINEL) =>
     /\ Terminated
     /\ exitStatus = 0
     /\ patches = <<>>
     /\ ~Did("apply")
     /\ Len(requests) = 1
     /\ Correctives = {}
     /\ ~Did("commit") /\ ~Did("push") /\ ~Did("pr")

C2_Witness ==
  /\ responses = <<SENTINEL>>
  /\ Terminated
  /\ Last(log) = [op |-> "ask", res |-> "ok"]

\* C3 as stated: a first response that is not exactly the literal never
\* takes the no-op path; attempt 1 is made with that response as the patch.
C3_OnlyExactLiteral ==
  (Len(responses) >= 1 /\ responses[1] # SENTINEL) =>
     /\ outcome # "noop"
     /\ Len(patches) >= 1
     /\ patches[1] = responses[1]

\* C3 amended: a first response whose text without its leading and trailing
\* whitespace is not exactly the literal never takes the no-op path;
\* attempt 1 is made with that trimmed text as the patch.
C3_OnlyTrimmedLiteral ==
  (Len(responses) >= 1 /\ TrimEnd(TrimStart(responses[1])) # SENTINEL) =>
     /\ outcome # "noop"
     /\ Len(patches) >= 1
     /\ Len(Applies) >= 1
     /\ patches[1] = TrimEnd(TrimStart(responses[1]))

C3_Witness ==
  /\ Len(responses) >= 1
  /\ \E k \in 1..Len(responses[1]) : responses[1][k] = SENTINEL[1]
  /\ Len(responses[1]) > 1
  /\ responses[1][Len(responses[1])] \notin Whitespace
  /\ Len(Applies) >= 1
  /\ patches[1] = responses[1]

\* C4: a failed attempt 1 is followed by exactly one corrective re-request
\* (and none is sent otherwise); when attempt 2 fails too the run ends with
\* exit status 1 and without commit, push or pull request.
C4_OneCorrectiveThenFatal ==
  /\ Cardinality(Correctives) =
       (IF Len(Applies) >= 1 /\ Applies[1].res = "fail" THEN 1 ELSE 0)
  /\ Len(requests) <= 2
  /\ (Len(Applies) >= 2 /\ Applies[1].res = "fail" /\ Applies[2].res = "fail")
       => /\ Terminated
          /\ exitStatus = 1
          /\ ~Did("commit") /\ ~Did("push") /\ ~Did("pr")

C4_Witness ==
  /\ Len(Applies) = 2
  /\ Applies[2].res = "fail"
  /\ Cardinality(Correctives) = 1
  /\ exitStatus = 1

\* C5: the number of admitted files never exceeds maxFiles (0 included), at
\* every step of the admission loop and in the returned bundle.
C5_FileCount ==
  /\ Len(picked) <= maxFiles
  /\ Len(result) <= maxFiles
  /\ DOMAIN parts \subseteq 1..maxFiles

C5_Witness ==
  /\ spc = "returned"
  /\ maxFiles > 0
  /\ Len(result) = maxFiles
  /\ idx < Len(candidates)
  /\ Admits(size[candidates[idx + 1]], budget)

\* C6: the byte total of the returned bundle (the FILE: blocks joined by the
\* delimiter) never exceeds maxBytes.
C6_BundleBytes ==
  spc = "returned" => BundleBytes(result) <= maxBytes

\* C7: a candidate of 3000 bytes or more is never admitted, whatever budget
\* and file count remain, manifest files included.
C7_HardCap ==
  /\ \A k \in 1..Len(picked) : size[picked[k]] < HardCap
  /\ \A k \in DOMAIN parts : parts[k].code.bytes < HardCap
  /\ \A k \in 1..Len(result) : result[k].code.bytes < HardCap

C7_Witness ==
  /\ spc = "returned"
  /\ \E k \in 1..idx :
       /\ candidates[k] = "package.json"
       /\ size[candidates[k]] >= HardCap
       /\ budget - size[candidates[k]] > 0
       /\ Len(picked) < maxFiles
       /\ candidates[k] \notin Range(picked)

\* C8: two executions of sampleRepoContext on the same snapshot with the same
\* limits settle the same way, admit the same files in the same order and
\* return the same bundle, whatever order the file reads complete in.
C8_Deterministic ==
  (run = 2 /\ Settled) =>
     /\ firstResult.returned = (spc = "returned")
     /\ spc = "returned" =>
          /\ picked = firstResult.picked
          /\ result = firstResult.blob

C8_Witness ==
  /\ run = 2
  /\ spc = "returned"
  /\ Len(result) >= 2
  /\ result = firstResult.blob

\* C9: the stages start in the order clone, branch creation, sampling, first
\* request, first apply attempt, commit, push, pull request; a commit only
\* follows a successful apply, a push a successful commit, a pull request a
\* successful push; a successful run has exactly one of each of the three.
StageOrder ==
  <<"clone", "checkout", "sample", "ask", "apply", "commit", "push", "pr">>

C9_StageOrder ==
  /\ \A n \in 2..Len(StageOrder) :
       Did(StageOrder[n]) =>
          /\ Did(StageOrder[n - 1])
          /\ FirstOf(StageOrder[n - 1]) < FirstOf(StageOrder[n])
  /\ \A k \in Ops(log, "commit") : k > 1 /\ log[k - 1] = [op |-> "apply", res |-> "ok"]
  /\ \A k \in Ops(log, "push") : k > 1 /\ log[k - 1] = [op |-> "commit", res |-> "ok"]
  /\ \A k \in Ops(log, "pr") : k > 1 /\ log[k - 1] = [op |-> "push", res |-> "ok"]
  /\ \A op \in {"clone", "checkout", "sample", "commit", "push", "pr"} :
       Cardinality(Ops(log, op)) <= 1
  /\ outcome = "published" =>
       \A op \in {"commit", "push", "pr"} : Cardinality(OpsOk(log, op)) = 1

C9_Witness ==
  /\ outcome = "published"
  /\ Len(Applies) = 2
  /\ Last(log) = [op |-> "pr", res |-> "ok"]

\* C10: a terminated run has exit status 0 exactly when it took the no-op
\* path or completed the pull-request creation; a run ended by a fatal
\* error (no task, a failed operation, patch failed twice) has status 1.
NoOpPath == Len(responses) = 1 /\ ~Did("apply") /\ Last(log) = [op |-> "ask", res |-> "ok"]
PrCreated == OpsOk(log, "pr") # {}
FatalError ==
  \/ task = ""
  \/ \E k \in 1..Len(log) : log[k].res = "fail" /\ (log[k].op = "apply" => k = Len(log))

C10_ExitStatus ==
  Terminated =>
     /\ exitStatus \in {0, 1}
     /\ exitStatus = 0 <=> (NoOpPath \/ PrCreated)
     /\ FatalError => exitStatus = 1
     /\ exitStatus = 1 => FatalError

C10_Witness ==
  /\ Terminated
  /\ exitStatus = 1
  /\ log # <<>>
  /\ Last(log) = [op |-> "pr", res |-> "fail"]

\* C11: with an empty Task the process exits with status 1 at once and
\* nothing is touched: no temporary directory, clone, sampling, model
\* request, apply attempt, commit, push or pull request.
C11_UsageTouchesNothing ==
  task = "" =>
     /\ pc \in {"start", "exited"}
     /\ log = <<>>
     /\ spc = "idle"
     /\ requests = <<>> /\ responses = <<>> /\ patches = <<>>
     /\ contextBlob = <<>>
     /\ Terminated => (exitStatus = 1 /\ outcome = "usage")

C11_Witness ==
  /\ task = ""
  /\ Terminated
  /\ exitStatus = 1
  /\ log = <<>>

\* C12: a failed clone, model call (first or corrective), push or
\* pull-request creation is fail-stop: it is not invoked again, nothing is
\* invoked after it, the run ends with exit status 1, and no operation that
\* completed is undone; when the push succeeded and the pull-request
\* creation failed, the push stands and no pull request exists.
FailStopOps == {"clone", "ask", "push", "pr"}

C12_FailStopState ==
  /\ \A k \in 1..Len(log) :
       (log[k].res = "fail" /\ log[k].op \in FailStopOps) =>
          /\ k = Len(log)
          /\ Terminated
          /\ exitStatus = 1
  /\ (log # <<>> /\ Last(log) = [op |-> "pr", res |-> "fail"]) =>
          /\ OpsOk(log, "push") # {}
          /\ OpsOk(log, "commit") # {}
          /\ OpsOk(log, "pr") = {}

C12_NothingUndone ==
  \A k \in 1..Len(log) :
     log[k].res # "pending" => (Len(log') >= k /\ log'[k] = log[k])

C12_FailStop == [] C12_FailStopState /\ [][C12_NothingUndone]_vars

C12_Witness ==
  /\ Terminated
  /\ Len(requests) = 2
  /\ Last(log) = [op |-> "ask", res |-> "fail"]

\* C13: a candidate that cannot be stat'ed, or an admitted file that cannot
\* be read, makes sampleRepoContext fail instead of being skipped: no bundle
\* is returned, no model request is made, and the run ends with status 1.
C13_SamplingErrorPropagates ==
  /\ \A k \in 1..idx : status[candidates[k]] # "gone"
  /\ \A k \in DOMAIN parts : status[picked[k]] = "ok"
  /\ spc = "returned" => \A k \in 1..Len(picked) : status[picked[k]] = "ok"
  /\ spc = "threw" =>
       /\ result = <<>>
       /\ contextBlob = <<>>
       /\ requests = <<>>
       /\ pc \in {"sample", "exited"}
       /\ Terminated => (exitStatus = 1 /\ Last(log) = [op |-> "sample", res |-> "fail"])
  /\ requests # <<>> => spc = "returned"

C13_Witness ==
  /\ Terminated
  /\ spc = "threw"
  /\ DOMAIN parts # {}
  /\ \E k \in 1..Len(picked) : status[picked[k]] = "unreadable"

\* I/O operations in flight: the operation main() awaits (the call of
\* sampleRepoContext is not one itself), and inside sampleRepoContext the
\* globby or fs.stat call it awaits or the fs.readFile calls not yet settled
PendingOps ==
  {k \in 1..Len(log) : log[k].res = "pending" /\ log[k].op # "sample"}
SamplerIO ==
  IF spc \in {"called", "stat"} THEN 1 ELSE Cardinality(inflight)
IOInFlight == Cardinality(PendingOps) + SamplerIO

\* C14 as stated: at every point of a run at most one I/O operation is in
\* flight; the file reads of sampling are never issued in parallel.
C14_StrictlySequential == IOInFlight <= 1

\* C14 amended: at most one I/O operation is in flight except during the
\* read phase of sampling; there the reads of all admitted files are issued
\* together, after the admission loop, and are in flight at once with
\* nothing else; no two model requests are outstanding together.
C14_SequentialButReads ==
  /\ Cardinality(PendingOps) <= 1
  /\ Cardinality({k \in PendingOps : log[k].op = "ask"}) <= 1
  /\ spc \notin {"reading", "threw"} => (inflight = {} /\ IOInFlight <= 1)
  /\ inflight # {} =>
       /\ PendingOps = {}
       /\ inflight \subseteq 1..Len(picked)
       /\ idx = Len(candidates) \/ LoopBreaks(picked, maxFiles)
  /\ (spc = "reading" /\ parts = <<>>) => inflight = 1..Len(picked)

C14_Witness ==
  /\ pc = "sample"
  /\ spc = "reading"
  /\ Cardinality(inflight) = 2
  /\ IOInFlight = 2

\* the walk so far: where a path stands in the sorted candidates, the files
\* admitted before the k-th candidate was visited, and the budget then left
PosIn(f) == CHOOSE k \in 1..Len(candidates) : candidates[k] = f
PickedBefore(k) == SelectSeq(picked, LAMBDA f : PosIn(f) < k)
BudgetAt(k) == maxBytes - SumSizes(PickedBefore(k))
Walking == spc \in {"stat", "reading", "returned", "threw"}
WholeBlock(b, f) == b = [path |-> f, code |-> [of |-> f, bytes |-> size[f]]]

\* C15 as stated: the budget only decreases as files are added; once a
\* candidate is met whose admission would drive the budget negative, or the
\* file-count cap is reached, no later candidate is admitted; every admitted
\* file is included whole.
C15_StopsAtFirstMisfit ==
  Walking =>
     /\ \A k \in 1..idx : \A j \in k..idx : BudgetAt(j) <= BudgetAt(k)
     /\ \A k \in 1..idx : \A j \in (k + 1)..idx :
          (\/ BudgetAt(k) - size[candidates[k]] < 0
           \/ Len(PickedBefore(k)) >= maxFiles)
             => candidates[j] \notin Range(picked)
     /\ \A k \in DOMAIN parts : WholeBlock(parts[k], picked[k])
     /\ \A k \in 1..Len(result) : WholeBlock(result[k], picked[k])

\* C15 amended: the budget only decreases as files are added; a candidate
\* whose admission would drive the budget to zero or below is skipped and
\* the walk goes on, so a later candidate that fits is still admitted; the
\* walk stops only when the file-count cap is reached or the candidates are
\* exhausted, and nothing is admitted once the cap is reached; every
\* admitted file is included whole.
C15_SkipsState ==
  Walking =>
     /\ \A k \in 1..idx : \A j \in k..idx : BudgetAt(j) <= BudgetAt(k)
     /\ budget <= maxBytes
     /\ \A k \in 1..idx : (idx = Len(candidates) => BudgetAt(k) >= budget)
     /\ \A k \in 1..idx : Len(PickedBefore(k)) < maxFiles
     /\ \A j \in (idx + 1)..Len(candidates) : candidates[j] \notin Range(picked)
     /\ spc = "stat" => (idx < Len(candidates) /\ Len(picked) < maxFiles)
     /\ spc \in {"reading", "returned"} =>
          (idx = Len(candidates) \/ Len(picked) >= maxFiles)
     /\ \A k \in DOMAIN parts : WholeBlock(parts[k], picked[k])
     /\ \A k \in 1..Len(result) : WholeBlock(result[k], picked[k])

C15_BudgetStep ==
  spc \in {"stat", "reading"} =>
     /\ spc' # "called" => budget' <= budget
     /\ Len(picked') > Len(picked) =>
          budget' = budget - size[picked'[Len(picked')]]

C15_SkipsAndGoesOn == [] C15_SkipsState /\ [][C15_BudgetStep]_vars

C15_Witness ==
  /\ spc = "returned"
  /\ \E k \in 1..idx : \E j \in (k + 1)..idx :
       /\ size[candidates[k]] < HardCap
       /\ BudgetAt(k) - size[candidates[k]] < 0
       /\ candidates[k] \notin Range(picked)
       /\ candidates[j] \in Range(picked)
       /\ WholeBlock(result[Len(result)], candidates[j])

\* C16: a candidate is admitted exactly when, at its visit, fewer than
\* maxFiles files are admitted, its size is below 3000 and the budget left
\* minus its size is above zero; the budget left is maxBytes minus the sizes
\* of the admitted files and is positive once a file is admitted; a visit
\* that admits nothing changes neither the budget nor the admitted list.
AdmissionRule(f, pk, bud) ==
  Len(pk) < maxFiles /\ size[f] < 3000 /\ bud - size[f] > 0

C16_RuleState ==
  Walking =>
     /\ \A j \in 1..idx :
          candidates[j] \in Range(picked)
            <=> AdmissionRule(candidates[j], PickedBefore(j), BudgetAt(j))
     /\ \A j \in (idx + 1)..Len(candidates) : candidates[j] \notin Range(picked)
     /\ budget = maxBytes - SumSizes(picked)
     /\ picked # <<>> => budget > 0

C16_RuleStep ==
  (spc = "stat" /\ spc' # "threw") =>
     LET f == candidates[idx + 1] IN
       /\ idx' = idx + 1
       /\ IF AdmissionRule(f, picked, budget)
          THEN picked' = Append(picked, f) /\ budget' = budget - size[f]
          ELSE picked' = picked /\ budget' = budget

C16_AdmissionRule == [] C16_RuleState /\ [][C16_RuleStep]_vars

C16_Witness ==
  /\ spc = "returned"
  /\ picked # <<>>
  /\ \E j \in 1..idx :
       /\ size[candidates[j]] < HardCap
       /\ BudgetAt(j) - size[candidates[j]] = 0
       /\ candidates[j] \notin Range(picked)

\* C17: the blocks of the bundle are the admitted files, once each, in
\* admission order: by path length ascending, and for equal path lengths in
\* the order globby discovered them.
DiscoveredAt(f) == CHOOSE k \in 1..Len(discovered) : discovered[k] = f

C17_BundleOrder ==
  /\ Walking =>
       \A i \in 1..Len(picked) : \A j \in (i + 1)..Len(picked) :
          /\ picked[i] # picked[j]
          /\ Len(picked[i]) <= Len(picked[j])
          /\ Len(picked[i]) = Len(picked[j])
               => DiscoveredAt(picked[i]) < DiscoveredAt(picked[j])
  /\ spc = "returned" =>
       /\ Len(result) = Len(picked)
       /\ \A i \in 1..Len(result) : result[i].path = picked[i]
       /\ \A i \in 1..Len(result) : \A j \in (i + 1)..Len(result) :
            /\ result[i].path # result[j].path
            /\ Len(result[i].path) <= Len(result[j].path)
            /\ Len(result[i].path) = Len(result[j].path)
                 => DiscoveredAt(result[i].path) < DiscoveredAt(result[j].path)

C17_Witness ==
  /\ spc = "returned"
  /\ Len(result) = 2
  /\ result[1].path = "b.py"
  /\ result[2].path = "a.js"

\* C18: provided every external operation eventually completes or fails,
\* every run ends, in exactly one of the terminal states usage error,
\* no-op, published and failed, and stays there.
TerminalStates == {"usage", "noop", "published", "failed"}

C18_Terminates ==
  /\ [](Terminated <=> outcome \in TerminalStates)
  /\ <>[](Terminated /\ outcome \in TerminalStates)

C18_Witness ==
  /\ Terminated
  /\ outcome = "failed"
  /\ Len(responses) = 2
  /\ Len(Applies) = 2

\* C19: the corrective re-request comes right after the failure of attempt 1
\* and before attempt 2; it carries the Task and the ContextBundle of the
\* first request, both unchanged, plus the corrective instruction, while the
\* first request carries no extra instruction; attempt 2 is made with the
\* patch the corrective re-request returned.
Asks == Ops(log, "ask")
Stripped(r) == TrimEnd(TrimStart(r))

C19_RetryState ==
  /\ Len(requests) <= 2
  /\ Cardinality(Asks) = Len(requests)
  /\ requests # <<>> =>
       /\ requests[1] = [context |-> contextBlob, task |-> task, extra |-> ""]
       /\ contextBlob = result
  /\ Len(requests) = 2 =>
       /\ CORRECTIVE # ""
       /\ requests[2] = [context |-> requests[1].context,
                         task |-> requests[1].task, extra |-> CORRECTIVE]
       /\ \E a \in Asks :
            /\ a > FirstOf("ask")
            /\ a - 1 = FirstOf("apply")
            /\ log[a - 1] = [op |-> "apply", res |-> "fail"]
            /\ \A k \in Ops(log, "apply") : k = a - 1 \/ k = a + 1
  /\ Len(patches) >= 1 => patches[1] = Stripped(responses[1])
  /\ Len(patches) = 2 =>
       /\ Len(requests) = 2
       /\ Len(responses) = 2
       /\ patches[2] = Stripped(responses[2])

C19_InputsKept ==
  requests # <<>> =>
     /\ task' = task
     /\ contextBlob' = contextBlob
     /\ \A k \in 1..Len(requests) : Len(requests') >= k /\ requests'[k] = requests[k]

C19_CorrectiveRequest == [] C19_RetryState /\ [][C19_InputsKept]_vars

C19_Witness ==
  /\ Len(requests) = 2
  /\ Len(patches) = 2
  /\ patches[2] # patches[1]
  /\ contextBlob # <<>>

\* C20: the sentinel counts only in the first response.  When attempt 1
\* failed and the corrective re-request returns __NO_CHANGES__, the run does
\* not take the no-op path: the sentinel text goes to `git apply` as
\* attempt 2, and if that is rejected the run ends failed with exit status
\* 1 and without commit, push or pull request.
C20_SentinelOnRetry ==
  (Len(responses) = 2 /\ Stripped(responses[2]) = SENTINEL) =>
     /\ outcome # "noop"
     /\ Applies[1].res = "fail"
     /\ Len(Applies) = 2
     /\ patches[2] = SENTINEL
     /\ Applies[2].res = "fail" =>
          /\ Terminated
          /\ exitStatus = 1
          /\ outcome = "failed"
          /\ Last(log) = [op |-> "apply", res |-> "fail"]
          /\ ~Did("commit") /\ ~Did("push") /\ ~Did("pr")
     /\ Applies[2].res = "ok" => (Did("commit") /\ diff = SENTINEL)

C20_Witness ==
  /\ Len(responses) = 2
  /\ responses[2] = SENTINEL
  /\ patches[2] = SENTINEL
  /\ Applies[2].res = "fail"
  /\ exitStatus = 1

====
